---- MODULE Spec2Model ----
(***************************************************************************)
(* Model of the k8s-version crate: the Kubernetes version parser           *)
(* (src/version.rs), its earlier revision (src/lib.rs), the scanner        *)
(* primitives (src/util.rs), the Level type (src/level.rs) and ApiVersion  *)
(* (src/api_version.rs).                                                   *)
(*                                                                         *)
(* Strings are sequences of bytes (integers 0..255), as the code scans     *)
(* them with `input.bytes()`.  A u64 is a triple of limbs <<hi, mid, lo>>  *)
(* in base 10^8 (value = hi*10^16 + mid*10^8 + lo), because the values at  *)
(* the 2^64 boundary do not fit the model checker's integers; arithmetic   *)
(* on the limbs is exact.                                                  *)
(***************************************************************************)
EXTENDS Integers, Sequences, FiniteSets, TLC

VARIABLES input, pc, res, bytes, lhs, rhs, amount

vars == <<input, pc, res, bytes, lhs, rhs, amount>>

(***************************************************************************)
(* Bytes                                                                   *)
(***************************************************************************)
B_0 == 48
B_9 == 57
B_a == 97
B_z == 122
B_v == 118
B_hyphen == 45
B_slash == 47
ASCII_MAX == 127

Lower == <<"a","b","c","d","e","f","g","h","i","j","k","l","m",
           "n","o","p","q","r","s","t","u","v","w","x","y","z">>
Digit == <<"0","1","2","3","4","5","6","7","8","9">>

\* The byte of a one-character literal.  "~" and "^" stand for the two bytes
\* of the UTF-8 encoding of U+00E4 (0xC3 0xA4), "A" for an upper-case letter.
Ord(c) ==
    IF \E i \in 1..26 : Lower[i] = c
    THEN B_a + (CHOOSE i \in 1..26 : Lower[i] = c) - 1
    ELSE IF \E i \in 1..10 : Digit[i] = c
    THEN B_0 + (CHOOSE i \in 1..10 : Digit[i] = c) - 1
    ELSE CASE c = "-" -> B_hyphen
           [] c = "/" -> B_slash
           [] c = "." -> 46
           [] c = "A" -> 65
           [] c = "~" -> 195
           [] c = "^" -> 164

Str(t) == [i \in 1..Len(t) |-> Ord(t[i])]

Rep(b, n) == [i \in 1..n |-> b]

Drop(s, n) == SubSeq(s, n + 1, Len(s))
Take(s, n) == SubSeq(s, 1, n)

IsDigit(b) == b >= B_0 /\ b <= B_9
IsLower(b) == b >= B_a /\ b <= B_z

(***************************************************************************)
(* u64 with checked arithmetic                                             *)
(***************************************************************************)
LimbBase == 10000 * 10000

U64(n) == <<0, 0, n>>
U64_MAX == <<1844, 67440737, 9551615>>

NumLeq(a, b) ==
    \/ a[1] < b[1]
    \/ a[1] = b[1] /\ a[2] < b[2]
    \/ a[1] = b[1] /\ a[2] = b[2] /\ a[3] <= b[3]

\* Exact product with a small factor; the high limb is not bounded.
WideMul(a, k) ==
    LET lo  == a[3] * k
        mid == a[2] * k + (lo \div LimbBase)
        hi  == a[1] * k + (mid \div LimbBase)
    IN  <<hi, mid % LimbBase, lo % LimbBase>>

\* Exact sum with a small addend.
WideAdd(a, d) ==
    LET lo  == a[3] + d
        mid == a[2] + (lo \div LimbBase)
        hi  == a[1] + (mid \div LimbBase)
    IN  <<hi, mid % LimbBase, lo % LimbBase>>

None == [some |-> FALSE]
Some(v) == [some |-> TRUE, v |-> v]

\* 2^64, and the exact difference a - 2^64 of a wide value a >= 2^64.
TWO_64 == <<1844, 67440737, 9551616>>

WideSubTwo64(a) ==
    LET lo  == a[3] - TWO_64[3]
        b1  == IF lo < 0 THEN 1 ELSE 0
        mid == a[2] - TWO_64[2] - b1
        b2  == IF mid < 0 THEN 1 ELSE 0
    IN  <<a[1] - TWO_64[1] - b2, mid + b2 * LimbBase, lo + b1 * LimbBase>>

\* Mutant of checked_result: the overflow bound is off by one, so that 2^64
\* is let through as a value.
checked_result_off_by_one(wide) == IF NumLeq(wide, TWO_64) THEN Some(wide) ELSE None

checked_result(wide) == IF NumLeq(wide, U64_MAX) THEN Some(wide) ELSE None

checked_mul(a, k) == checked_result(WideMul(a, k))

checked_add(a, d) == checked_result(WideAdd(a, d))

(***************************************************************************)
(* Decimal formatting of a u64 (`{}` of a u64)                             *)
(***************************************************************************)
RECURSIVE DecDigits(_)
DecDigits(n) ==
    IF n < 10 THEN <<B_0 + n>>
    ELSE DecDigits(n \div 10) \o <<B_0 + (n % 10)>>

RECURSIVE PadDigits(_, _)
PadDigits(n, width) ==
    IF width = 0 THEN <<>>
    ELSE PadDigits(n \div 10, width - 1) \o <<B_0 + (n % 10)>>

LimbDigits == 8

u64_fmt(a) ==
    IF a[1] > 0
    THEN DecDigits(a[1]) \o PadDigits(a[2], LimbDigits) \o PadDigits(a[3], LimbDigits)
    ELSE IF a[2] > 0
    THEN DecDigits(a[2]) \o PadDigits(a[3], LimbDigits)
    ELSE DecDigits(a[3])

(***************************************************************************)
(* DNS_LABEL_REGEX: ^(?:[a-z0-9][a-z0-9-]{0,61}[a-z0-9])+$                 *)
(***************************************************************************)
REGEX_MIN_INNER == 0
REGEX_MAX_INNER == 61

IsAlnum(b) == IsLower(b) \/ IsDigit(b)
IsLabelByte(b) == IsAlnum(b) \/ b = B_hyphen

\* One repetition of the group matches s[from+1 .. to].
GroupMatches(s, from, to) ==
    /\ to - from - 2 >= REGEX_MIN_INNER
    /\ to - from - 2 <= REGEX_MAX_INNER
    /\ IsAlnum(s[from + 1])
    /\ IsAlnum(s[to])
    /\ \A j \in (from + 2)..(to - 1) : IsLabelByte(s[j])

\* Scan of s from position p, left to right.  `ends` is a sequence of
\* booleans over the positions before p: ends[q] says that s[1..q] is one
\* or more repetitions of the group.
RECURSIVE GroupEnds(_, _, _)
GroupEnds(s, p, ends) ==
    IF p > Len(s) THEN ends
    ELSE LET end == \E q \in 0..(p - 1) :
                        /\ q = 0 \/ ends[q]
                        /\ GroupMatches(s, q, p)
         IN  GroupEnds(s, p + 1, Append(ends, end))

DNS_LABEL_REGEX_is_match(s) ==
    /\ Len(s) > 0
    /\ GroupEnds(s, 1, <<>>)[Len(s)]

(***************************************************************************)
(* src/version.rs: the scanner over the Peekable<Bytes> cursor             *)
(***************************************************************************)
ERROR_REGEX_FAILED_MESSAGE ==
    "string is empty, contains non-ASCII characters or contains more than 63 characters"
ERROR_ILLEGAL_PREFIX_MESSAGE == "version must start with \"v\""
ERROR_MAJOR_MESSAGE == "failed to parse major version number"

\* A panic (unwrap of None, todo!(), slice out of range, arithmetic overflow
\* with overflow checks): the call does not return a value.
Panic(what) == [ok |-> FALSE, err |-> "panic", what |-> what]

IllegalFormat(message) == [ok |-> FALSE, err |-> "IllegalFormat", message |-> message]
IllegalLevel(level) == [ok |-> FALSE, err |-> "IllegalLevel", level |-> level]
IntegerOverflow == [ok |-> FALSE, err |-> "IntegerOverflow"]
LeadingZero == [ok |-> FALSE, err |-> "LeadingZero"]

\* The literals "beta" and "alpha".
BETA_ID == <<98, 101, 116, 97>>
ALPHA_ID == <<97, 108, 112, 104, 97>>

NoLevel == [tag |-> "None"]
Beta(n) == [tag |-> "Beta", n |-> n]
Alpha(n) == [tag |-> "Alpha", n |-> n]

\* The loop of extract_digits from cursor position i (1-based) of s.
RECURSIVE extract_digits_loop(_, _, _, _)
extract_digits_loop(s, i, at_start, number) ==
    IF i <= Len(s) /\ IsDigit(s[i])
    THEN IF at_start /\ s[i] = B_0
         THEN LeadingZero
         ELSE LET mul == checked_mul(number, 10)
                  sum == IF mul.some THEN checked_add(mul.v, s[i] - B_0) ELSE None
              IN  IF sum.some
                  THEN extract_digits_loop(s, i + 1, FALSE, sum.v)
                  ELSE IntegerOverflow
    ELSE [ok |-> TRUE, number |-> number, consumed |-> i - 1, rest |-> Drop(s, i - 1)]

\* Mutant of extract_digits: at_start starts out false, so a leading zero
\* is never seen.
extract_digits_not_at_start(s) == extract_digits_loop(s, 1, FALSE, U64(0))

extract_digits(s) == extract_digits_loop(s, 1, TRUE, U64(0))

\* The number of bytes the loop `while let Some(b) = bytes.next_if(lower)`
\* takes from the front of s: the length of the longest prefix of lower-case
\* letters.
LowerRunLength(s) ==
    CHOOSE k \in 0..Len(s) :
        /\ \A j \in 1..k : IsLower(s[j])
        /\ k = Len(s) \/ ~IsLower(s[k + 1])

extract_chars_run(s, n) == [identifier |-> Take(s, n), rest |-> Drop(s, n)]

\* Mutant of extract_chars: the run does not stop at the first byte that is
\* no lower-case letter.
extract_chars_to_end(s) == extract_chars_run(s, Len(s))

extract_chars(s) == extract_chars_run(s, LowerRunLength(s))

\* The level digits are taken as extract_digits(..)?.0 : the count of
\* consumed bytes is dropped.
BetaLevel(digits) ==
    IF digits.ok
    THEN [ok |-> TRUE, level |-> Beta(digits.number), rest |-> digits.rest]
    ELSE digits

AlphaLevel(digits) ==
    IF digits.ok
    THEN [ok |-> TRUE, level |-> Alpha(digits.number), rest |-> digits.rest]
    ELSE digits

\* Version::from_str.  The result carries `rest`, the bytes left in the
\* cursor when the function returns.
Version_from_str(s) ==
    IF ~DNS_LABEL_REGEX_is_match(s)
    THEN [result |-> IllegalFormat(ERROR_REGEX_FAILED_MESSAGE), rest |-> s]
    ELSE IF Len(s) = 0
    THEN [result |-> Panic("unwrap"), rest |-> s]
    ELSE LET first == Head(s)
             after == Tail(s)
         IN
         IF first # B_v
         THEN [result |-> IllegalFormat(ERROR_ILLEGAL_PREFIX_MESSAGE), rest |-> after]
         ELSE LET major == extract_digits(after) IN
         IF ~major.ok
         THEN [result |-> major, rest |-> after]
         ELSE IF major.consumed = 0
         THEN [result |-> IllegalFormat(ERROR_MAJOR_MESSAGE), rest |-> major.rest]
         ELSE IF Len(major.rest) = 0
         THEN [result |-> [ok |-> TRUE, major |-> major.number, level |-> NoLevel],
               rest |-> major.rest]
         ELSE LET chars == extract_chars(major.rest)
                  level ==
                      IF chars.identifier = BETA_ID
                      THEN BetaLevel(extract_digits(chars.rest))
                      ELSE IF chars.identifier = ALPHA_ID
                      THEN AlphaLevel(extract_digits(chars.rest))
                      ELSE IllegalLevel(chars.identifier)
              IN
              IF ~level.ok
              THEN [result |-> level, rest |-> chars.rest]
              ELSE [result |-> [ok |-> TRUE, major |-> major.number, level |-> level.level],
                    rest |-> level.rest]

(***************************************************************************)
(* src/version.rs: Display                                                 *)
(***************************************************************************)
Level_fmt(level) ==
    IF level.tag = "Beta"
    THEN BETA_ID \o u64_fmt(level.n)
    ELSE ALPHA_ID \o u64_fmt(level.n)

Version_fmt(v) ==
    IF v.level.tag # "None"
    THEN <<B_v>> \o u64_fmt(v.major) \o Level_fmt(v.level)
    ELSE <<B_v>> \o u64_fmt(v.major)

(***************************************************************************)
(* src/lib.rs: the earlier revision of Version::from_str                   *)
(***************************************************************************)
MAX_LENGTH == 63

Lib_Empty == [ok |-> FALSE, err |-> "Empty"]
Lib_IllegalLength(length) == [ok |-> FALSE, err |-> "IllegalLength", length |-> length]
Lib_NonAscii == [ok |-> FALSE, err |-> "NonAscii"]
Lib_IllegalChar(character, index) ==
    [ok |-> FALSE, err |-> "IllegalChar", character |-> character, index |-> index]
Lib_IllegalIdentifier(identifier) ==
    [ok |-> FALSE, err |-> "IllegalIdentifier", identifier |-> identifier]

is_ascii(s) == \A i \in 1..Len(s) : s[i] <= ASCII_MAX

\* lib.rs's extract_digits runs the same loop and returns the number alone.
Lib_extract_digits(s) ==
    LET r == extract_digits_loop(s, 1, TRUE, U64(0))
    IN  IF r.ok THEN [ok |-> TRUE, number |-> r.number, rest |-> r.rest] ELSE r

Lib_BetaMinor(digits) ==
    IF digits.ok
    THEN [ok |-> TRUE, minor |-> Beta(digits.number), rest |-> digits.rest]
    ELSE digits

Lib_AlphaMinor(digits) ==
    IF digits.ok
    THEN [ok |-> TRUE, minor |-> Alpha(digits.number), rest |-> digits.rest]
    ELSE digits

Lib_Version_from_str(s) ==
    IF Len(s) = 0
    THEN [result |-> Lib_Empty, rest |-> s]
    ELSE IF Len(s) > MAX_LENGTH
    THEN [result |-> Lib_IllegalLength(Len(s)), rest |-> s]
    ELSE IF ~is_ascii(s)
    THEN [result |-> Lib_NonAscii, rest |-> s]
    ELSE LET first == Head(s)
             after == Tail(s)
         IN
         IF first # B_v
         THEN [result |-> Lib_IllegalChar(first, 0), rest |-> after]
         ELSE LET major == Lib_extract_digits(after) IN
         IF ~major.ok
         THEN [result |-> major, rest |-> after]
         ELSE IF Len(major.rest) = 0
         THEN [result |-> [ok |-> TRUE, major |-> major.number, minor |-> NoLevel],
               rest |-> major.rest]
         ELSE LET chars == extract_chars(major.rest)
                  minor ==
                      IF chars.identifier = BETA_ID
                      THEN Lib_BetaMinor(Lib_extract_digits(chars.rest))
                      ELSE IF chars.identifier = ALPHA_ID
                      THEN Lib_AlphaMinor(Lib_extract_digits(chars.rest))
                      ELSE Lib_IllegalIdentifier(chars.identifier)
              IN
              IF ~minor.ok
              THEN [result |-> minor, rest |-> chars.rest]
              ELSE [result |-> [ok |-> TRUE, major |-> major.number, minor |-> minor.minor],
                    rest |-> minor.rest]

(***************************************************************************)
(* src/util.rs: consume_digits                                             *)
(***************************************************************************)
\* The loop of consume_digits; index is 0-based as in enumerate().
RECURSIVE consume_digits_loop(_, _, _, _)
consume_digits_loop(s, index, number, consumed) ==
    IF index + 1 <= Len(s) /\ IsDigit(s[index + 1])
    THEN IF index = 0 /\ s[index + 1] = B_0
         THEN LeadingZero
         ELSE LET mul == checked_mul(number, 10)
                  sum == IF mul.some THEN checked_add(mul.v, s[index + 1] - B_0) ELSE None
              IN  IF sum.some
                  THEN consume_digits_loop(s, index + 1, sum.v, consumed + 1)
                  ELSE IntegerOverflow
    ELSE IF consumed > 0
         THEN [ok |-> TRUE, number |-> number, rest |-> Drop(s, consumed)]
         ELSE Panic("todo")

consume_digits(s) == consume_digits_loop(s, 0, U64(0), 0)

UnexpectedCharacter(char) == [ok |-> FALSE, err |-> "UnexpectedCharacter", char |-> char]

\* First and last byte of a UTF-8 continuation byte (0b10xxxxxx).
UTF8_CONT_MIN == 128
UTF8_CONT_MAX == 191

\* str::is_char_boundary(index), index 0-based: the start, the end, or a byte
\* that is not a continuation byte.  Slicing a str anywhere else panics.
is_char_boundary(s, index) ==
    \/ index = 0
    \/ index = Len(s)
    \/ /\ index < Len(s)
       /\ ~(s[index + 1] >= UTF8_CONT_MIN /\ s[index + 1] <= UTF8_CONT_MAX)

\* consume_start: the error value is built from the slice input[..1], which
\* is evaluated only when the input does not start with 'v'.
consume_start(s) ==
    IF Len(s) > 0 /\ s[1] = B_v
    THEN [ok |-> TRUE, rest |-> Drop(s, 1)]
    ELSE IF is_char_boundary(s, 1)
         THEN UnexpectedCharacter(Take(s, 1))
         ELSE Panic("slice")

\* consume_chars: the run of lower-case letters and the remaining input.
consume_chars(s) ==
    LET consumed == LowerRunLength(s)
    IN  [ok |-> TRUE, string |-> Take(s, consumed), rest |-> Drop(s, consumed)]

(***************************************************************************)
(* src/level.rs: Level                                                     *)
(***************************************************************************)
Less == "Less"
Equal == "Equal"
Greater == "Greater"

\* u64::partial_cmp
u64_partial_cmp(a, b) ==
    IF a = b THEN Some(Equal)
    ELSE IF NumLeq(a, b) THEN Some(Less)
    ELSE Some(Greater)

\* Mutant of Level_partial_cmp: the variants are not told apart, only the
\* numbers are compared.
Level_partial_cmp_numbers_only(self, other) == u64_partial_cmp(self.n, other.n)

Level_partial_cmp(self, other) ==
    IF self.tag = "Beta"
    THEN IF other.tag = "Beta"
         THEN u64_partial_cmp(self.n, other.n)
         ELSE Some(Greater)
    ELSE IF other.tag = "Beta"
         THEN Some(Less)
         ELSE u64_partial_cmp(self.n, other.n)

\* str::parse::<u64> of a run of ASCII digits: leading zeros are accepted,
\* overflow is an error.
RECURSIVE parse_u64_loop(_, _, _)
parse_u64_loop(s, i, number) ==
    IF i > Len(s) THEN [ok |-> TRUE, number |-> number]
    ELSE LET mul == checked_mul(number, 10)
             sum == IF mul.some THEN checked_add(mul.v, s[i] - B_0) ELSE None
         IN  IF sum.some
             THEN parse_u64_loop(s, i + 1, sum.v)
             ELSE [ok |-> FALSE, err |-> "PosOverflow"]

parse_u64(s) == parse_u64_loop(s, 1, U64(0))

Level_InvalidFormat == [ok |-> FALSE, err |-> "InvalidFormat"]
Level_ParseVersion(source) == [ok |-> FALSE, err |-> "ParseVersion", source |-> source]
Level_UnknownIdentifier == [ok |-> FALSE, err |-> "UnknownIdentifier"]

\* LEVEL_REGEX: ^(?P<identifier>[a-z]+)(?P<version>\d+)$ over ASCII input
\* (no input of the model holds a non-ASCII digit).
LEVEL_REGEX_captures(s) ==
    LET chars == extract_chars(s)
        version == chars.rest
    IN  IF /\ Len(chars.identifier) > 0
           /\ Len(version) > 0
           /\ \A i \in 1..Len(version) : IsDigit(version[i])
        THEN Some([identifier |-> chars.identifier, version |-> version])
        ELSE None

Level_from_str(s) ==
    LET captures == LEVEL_REGEX_captures(s) IN
    IF ~captures.some
    THEN Level_InvalidFormat
    ELSE LET version == parse_u64(captures.v.version) IN
         IF ~version.ok
         THEN Level_ParseVersion(version)
         ELSE IF captures.v.identifier = ALPHA_ID
         THEN [ok |-> TRUE, level |-> Alpha(version.number)]
         ELSE IF captures.v.identifier = BETA_ID
         THEN [ok |-> TRUE, level |-> Beta(version.number)]
         ELSE Level_UnknownIdentifier

(***************************************************************************)
(* src/level.rs: Add, AddAssign, Sub, SubAssign                            *)
(*                                                                         *)
(* The operators use the plain `+` and `-` of u64.  On overflow these      *)
(* panic in a build with overflow checks (the debug profile) and wrap      *)
(* modulo 2^64 in a build without them (the release profile); the flag     *)
(* overflow_checks selects the build.                                      *)
(***************************************************************************)
\* Exact sum a + b and exact difference a - b (for a >= b) of limb triples.
WideSum(a, b) ==
    LET lo  == a[3] + b[3]
        mid == a[2] + b[2] + (lo \div LimbBase)
        hi  == a[1] + b[1] + (mid \div LimbBase)
    IN  <<hi, mid % LimbBase, lo % LimbBase>>

WideDiff(a, b) ==
    LET lo  == a[3] - b[3]
        b1  == IF lo < 0 THEN 1 ELSE 0
        mid == a[2] - b[2] - b1
        b2  == IF mid < 0 THEN 1 ELSE 0
    IN  <<a[1] - b[1] - b2, mid + b2 * LimbBase, lo + b1 * LimbBase>>

\* a + b of u64
u64_add(a, b, overflow_checks) ==
    LET wide == WideSum(a, b) IN
    IF NumLeq(wide, U64_MAX) THEN [ok |-> TRUE, v |-> wide]
    ELSE IF overflow_checks THEN Panic("attempt to add with overflow")
    ELSE [ok |-> TRUE, v |-> WideSubTwo64(wide)]

\* a - b of u64
u64_sub(a, b, overflow_checks) ==
    IF NumLeq(b, a) THEN [ok |-> TRUE, v |-> WideDiff(a, b)]
    ELSE IF overflow_checks THEN Panic("attempt to subtract with overflow")
    ELSE [ok |-> TRUE, v |-> WideDiff(WideSum(a, TWO_64), b)]

\* The variant of self around the number n.
SameVariant(self, n) == IF self.tag = "Beta" THEN Beta(n) ELSE Alpha(n)

\* Level::add(self, rhs): a new Level of the same variant.
Level_add(self, n, overflow_checks) ==
    LET sum == u64_add(self.n, n, overflow_checks) IN
    IF sum.ok THEN [ok |-> TRUE, level |-> SameVariant(self, sum.v)] ELSE sum

\* Level::sub(self, rhs)
Level_sub(self, n, overflow_checks) ==
    LET difference == u64_sub(self.n, n, overflow_checks) IN
    IF difference.ok THEN [ok |-> TRUE, level |-> SameVariant(self, difference.v)]
    ELSE difference

\* Level::add_assign(&mut self, rhs): each match arm evaluates `*b + rhs.into()`
\* and the statement ends in `;`, so the sum is dropped and nothing is
\* written through the reference.  `self` is the Level after the call.
Level_add_assign(self, n, overflow_checks) ==
    LET sum == u64_add(self.n, n, overflow_checks) IN
    IF sum.ok THEN [ok |-> TRUE, self |-> self] ELSE sum

\* Level::sub_assign(&mut self, rhs): likewise, the difference is dropped.
Level_sub_assign(self, n, overflow_checks) ==
    LET difference == u64_sub(self.n, n, overflow_checks) IN
    IF difference.ok THEN [ok |-> TRUE, self |-> self] ELSE difference

(***************************************************************************)
(* src/api_version.rs: ApiVersion::from_str                                *)
(***************************************************************************)
ParseVersion(source) == [ok |-> FALSE, err |-> "ParseVersion", source |-> source]

\* str::split_once('/'): split at the first delimiter from the left.
split_at(s, i) == Some(<<Take(s, i - 1), Drop(s, i)>>)

\* Mutant of split_once: split at the last delimiter (rsplit_once).
rsplit_once(s) ==
    IF \E i \in 1..Len(s) : s[i] = B_slash
    THEN split_at(s, CHOOSE i \in 1..Len(s) :
                        s[i] = B_slash /\ \A j \in (i + 1)..Len(s) : s[j] # B_slash)
    ELSE None

split_once(s) ==
    IF \E i \in 1..Len(s) : s[i] = B_slash
    THEN split_at(s, CHOOSE i \in 1..Len(s) :
                        s[i] = B_slash /\ \A j \in 1..(i - 1) : s[j] # B_slash)
    ELSE None

ApiVersion_from_str(s) ==
    LET parts == split_once(s) IN
    IF parts.some
    THEN LET version == Version_from_str(parts.v[2]).result IN
         IF ~version.ok
         THEN ParseVersion(version)
         ELSE [ok |-> TRUE, group |-> Some(parts.v[1]), version |-> version]
    ELSE LET version == Version_from_str(s).result IN
         IF ~version.ok
         THEN ParseVersion(version)
         ELSE [ok |-> TRUE, group |-> None, version |-> version]

(***************************************************************************)
(* Inputs                                                                  *)
(***************************************************************************)
\* Every string over ShortAlphabet of at most MaxShort bytes.
MaxShort == 3
\* Long inputs run up to MaxOver bytes past the 63-byte limit.
MaxOver == 2
\* Level numbers 0..MaxLevelNum, beside the large ones.
MaxLevelNum == 2

ShortAlphabet == {B_v, B_0, B_0 + 1, B_a, B_hyphen}

ShortInputs == UNION {[1..n -> ShortAlphabet] : n \in 0..MaxShort}

DigitRuns ==
    { <<>>,
      Str(<<"0">>), Str(<<"1">>), Str(<<"0","1">>), Str(<<"1","2">>),
      Str(<<"1","8","4","4","6","7","4","4","0","7","3","7","0","9","5","5","1","6","1","5">>),
      Str(<<"1","8","4","4","6","7","4","4","0","7","3","7","0","9","5","5","1","6","1","6">>),
      Str(<<"1","8","4","4","6","7","4","4","0","7","3","7","0","9","5","5","1","6","2","0">>) }

Prefixes == { <<>>, Str(<<"v">>), Str(<<"x">>) }

Identifiers ==
    { <<>>, Str(<<"b","e","t","a">>), Str(<<"a","l","p","h","a">>),
      Str(<<"g","a","m","m","a">>), Str(<<"b","e","t","a","x">>) }

Trailers == { <<>>, Str(<<"x">>), Str(<<"-","a">>), Str(<<"~","^">>) }

VersionInputs ==
    { p \o major \o ident \o num \o t :
        p \in Prefixes, major \in DigitRuns, ident \in Identifiers,
        num \in DigitRuns, t \in Trailers }

LongHeads ==
    { Str(<<"v">>), Str(<<"v","1">>), Str(<<"v","1","b","e","t","a","1">>),
      Str(<<"v","1","b","e","t","a">>), Str(<<"1">>) }

LongInputs ==
    { h \o Rep(b, n) :
        h \in LongHeads, b \in {B_0 + 1, B_a, B_hyphen},
        n \in (MAX_LENGTH - 8)..(MAX_LENGTH + MaxOver) }

Groups ==
    { <<>>, Str(<<"g">>), Str(<<"a",".","b">>), Str(<<"a","/","b">>), Str(<<"v","1">>) }

GroupedVersions ==
    { <<>>, Str(<<"v","1">>), Str(<<"v","1","b","e","t","a","1">>),
      Str(<<"v","2","a","l","p","h","a","1","2">>), Str(<<"v","0">>),
      Str(<<"v","1","g","a","m","m","a","2">>), Str(<<"1","b","e","t","a","1">>),
      Str(<<"v","1","/","v","2">>),
      Str(<<"v","1","8","4","4","6","7","4","4","0","7","3","7","0","9","5","5","1","6","1","6">>) }

ApiInputs == { g \o <<B_slash>> \o v : g \in Groups, v \in GroupedVersions }

Inputs == ShortInputs \cup VersionInputs \cup LongInputs \cup ApiInputs

LevelNumbers ==
    { U64(n) : n \in 0..MaxLevelNum }
        \cup { <<0, 1, 0>>, <<1, 0, 0>>, <<1844, 67440737, 9551614>>, U64_MAX }

Levels == { Beta(n) : n \in LevelNumbers } \cup { Alpha(n) : n \in LevelNumbers }

\* The right-hand sides of the arithmetic operators, after `rhs.into()`.
MaxAmount == 2

Amounts == { U64(n) : n \in 0..MaxAmount } \cup { <<0, 1, 0>>, U64_MAX }

(***************************************************************************)
(* The state machine: one call per behaviour                               *)
(***************************************************************************)
NotRun == [ok |-> FALSE, err |-> "NotRun"]

Init ==
    /\ res = NotRun
    /\ bytes = <<>>
    /\ \/ /\ pc = "start"
          /\ input \in Inputs
          /\ lhs = NoLevel
          /\ rhs = NoLevel
          /\ amount = U64(0)
       \/ /\ pc = "levels"
          /\ input = <<>>
          /\ lhs \in Levels
          /\ rhs \in Levels
          /\ amount = U64(0)
       \/ /\ pc = "arith"
          /\ input = <<>>
          /\ lhs \in Levels
          /\ rhs = NoLevel
          /\ amount \in Amounts

\* Version::from_str(input)  (src/version.rs)
CallVersionFromStr ==
    /\ pc = "start"
    /\ LET r == Version_from_str(input) IN
       /\ res' = r.result
       /\ bytes' = r.rest
    /\ pc' = "version"
    /\ UNCHANGED <<input, lhs, rhs, amount>>

\* version.to_string() of a parsed Version
CallVersionToString ==
    /\ pc = "version"
    /\ res.ok
    /\ res' = [ok |-> TRUE, string |-> Version_fmt(res)]
    /\ pc' = "version_string"
    /\ UNCHANGED <<input, bytes, lhs, rhs, amount>>

\* Version::from_str(input)  (src/lib.rs)
CallLibVersionFromStr ==
    /\ pc = "start"
    /\ LET r == Lib_Version_from_str(input) IN
       /\ res' = r.result
       /\ bytes' = r.rest
    /\ pc' = "lib_version"
    /\ UNCHANGED <<input, lhs, rhs, amount>>

\* consume_digits(input)  (src/util.rs)
CallConsumeDigits ==
    /\ pc = "start"
    /\ res' = consume_digits(input)
    /\ pc' = "consume_digits"
    /\ UNCHANGED <<input, bytes, lhs, rhs, amount>>

\* Level::from_str(input)  (src/level.rs)
CallLevelFromStr ==
    /\ pc = "start"
    /\ res' = Level_from_str(input)
    /\ pc' = "level"
    /\ UNCHANGED <<input, bytes, lhs, rhs, amount>>

\* ApiVersion::from_str(input)  (src/api_version.rs)
CallApiVersionFromStr ==
    /\ pc = "start"
    /\ res' = ApiVersion_from_str(input)
    /\ pc' = "api_version"
    /\ UNCHANGED <<input, bytes, lhs, rhs, amount>>

\* lhs.partial_cmp(&rhs)  (src/level.rs)
CallLevelPartialCmp ==
    /\ pc = "levels"
    /\ res' = Level_partial_cmp(lhs, rhs)
    /\ pc' = "compared"
    /\ UNCHANGED <<input, bytes, lhs, rhs, amount>>

\* consume_start(input)  (src/util.rs)
CallConsumeStart ==
    /\ pc = "start"
    /\ res' = consume_start(input)
    /\ pc' = "consume_start"
    /\ UNCHANGED <<input, bytes, lhs, rhs, amount>>

\* consume_chars(input)  (src/util.rs)
CallConsumeChars ==
    /\ pc = "start"
    /\ res' = consume_chars(input)
    /\ pc' = "consume_chars"
    /\ UNCHANGED <<input, bytes, lhs, rhs, amount>>

\* lhs + amount  (src/level.rs); res is the returned Level
CallLevelAdd ==
    /\ pc = "arith"
    /\ \E overflow_checks \in BOOLEAN :
           res' = Level_add(lhs, amount, overflow_checks)
    /\ pc' = "added"
    /\ UNCHANGED <<input, bytes, lhs, rhs, amount>>

\* lhs - amount  (src/level.rs)
CallLevelSub ==
    /\ pc = "arith"
    /\ \E overflow_checks \in BOOLEAN :
           res' = Level_sub(lhs, amount, overflow_checks)
    /\ pc' = "subtracted"
    /\ UNCHANGED <<input, bytes, lhs, rhs, amount>>

\* lhs += amount  (src/level.rs); lhs is the Level behind &mut self
CallLevelAddAssign ==
    /\ pc = "arith"
    /\ \E overflow_checks \in BOOLEAN :
           LET r == Level_add_assign(lhs, amount, overflow_checks) IN
           /\ res' = [ok |-> r.ok]
           /\ lhs' = IF r.ok THEN r.self ELSE lhs
    /\ pc' = "add_assigned"
    /\ UNCHANGED <<input, bytes, rhs, amount>>

\* lhs -= amount  (src/level.rs)
CallLevelSubAssign ==
    /\ pc = "arith"
    /\ \E overflow_checks \in BOOLEAN :
           LET r == Level_sub_assign(lhs, amount, overflow_checks) IN
           /\ res' = [ok |-> r.ok]
           /\ lhs' = IF r.ok THEN r.self ELSE lhs
    /\ pc' = "sub_assigned"
    /\ UNCHANGED <<input, bytes, rhs, amount>>

Next ==
    \/ CallConsumeStart
    \/ CallConsumeChars
    \/ CallLevelAdd
    \/ CallLevelSub
    \/ CallLevelAddAssign
    \/ CallLevelSubAssign
    \/ CallVersionFromStr
    \/ CallVersionToString
    \/ CallLibVersionFromStr
    \/ CallConsumeDigits
    \/ CallLevelFromStr
    \/ CallApiVersionFromStr
    \/ CallLevelPartialCmp

Spec == Init /\ [][Next]_vars

(***************************************************************************)
(* The shape of an input, read off the text and not off the parser         *)
(***************************************************************************)
BETA == Str(<<"b","e","t","a">>)
ALPHA == Str(<<"a","l","p","h","a">>)

StartsWithV(s) == Len(s) > 0 /\ s[1] = B_v

\* The longest prefix of s made of digits, and of lower-case letters.
DigitPrefix(s) ==
    Take(s, CHOOSE k \in 0..Len(s) :
                /\ \A j \in 1..k : s[j] \in B_0..B_9
                /\ k = Len(s) \/ s[k + 1] \notin B_0..B_9)

LowerPrefix(s) ==
    Take(s, CHOOSE k \in 0..Len(s) :
                /\ \A j \in 1..k : s[j] \in B_a..B_z
                /\ k = Len(s) \/ s[k + 1] \notin B_a..B_z)

\* The digits that follow the 'v', the lower-case run after them, the digits
\* after that run, and what is left.
MajorRun(s) == DigitPrefix(Tail(s))
AfterMajor(s) == Drop(Tail(s), Len(MajorRun(s)))
SuffixRun(s) == LowerPrefix(AfterMajor(s))
AfterSuffix(s) == Drop(AfterMajor(s), Len(SuffixRun(s)))
LevelRun(s) == DigitPrefix(AfterSuffix(s))
AfterLevel(s) == Drop(AfterSuffix(s), Len(LevelRun(s)))

\* The value of a run of at most 8 digits.
RECURSIVE DecVal(_)
DecVal(d) ==
    IF Len(d) = 0 THEN 0
    ELSE DecVal(Take(d, Len(d) - 1)) * 10 + (d[Len(d)] - B_0)

Max2(a, b) == IF a > b THEN a ELSE b

\* The value of a run of at most 24 digits, read limb by limb from the right.
RunValue(d) ==
    LET n == Len(d)
    IN  << DecVal(SubSeq(d, 1, n - 16)),
           DecVal(SubSeq(d, Max2(1, n - 15), n - 8)),
           DecVal(SubSeq(d, Max2(1, n - 7), n)) >>

BeginsWithZero(d) == Len(d) > 0 /\ d[1] = B_0

\* A run without a leading zero of more than 20 digits is above 2^64 - 1.
RunFits(d) == Len(d) <= 20 /\ NumLeq(RunValue(d), U64_MAX)

\* A digit run that is a number the parser takes: present, no leading zero,
\* at most 2^64 - 1.
RunValid(d) == Len(d) > 0 /\ ~BeginsWithZero(d) /\ RunFits(d)

(***************************************************************************)
(* C1.  Round trip: for every input that Version::from_str accepts,        *)
(* formatting the parsed Version gives back the input, byte for byte.      *)
(* Violated by src/version.rs: "v1beta" is accepted as Beta(0) and         *)
(* formats as "v1beta0"; "v1beta1x" is accepted and formats as "v1beta1".  *)
(***************************************************************************)
C1_RoundTrip == pc = "version_string" => res.string = input

(***************************************************************************)
(* C2.  Full consumption: Version::from_str never returns Ok while bytes   *)
(* are left in the cursor after the digits of the level number.            *)
(* Violated by src/version.rs (and src/lib.rs): "v1beta1x" returns Ok with *)
(* "x" unread.                                                             *)
(***************************************************************************)
C2_FullConsumption ==
    (pc \in {"version", "lib_version"} /\ res.ok) => Len(bytes) = 0

(***************************************************************************)
(* C3.  Missing level number: when the suffix identifier is "beta" or      *)
(* "alpha" and no digit follows it, parsing fails; no Level is produced    *)
(* from an absent digit run.                                               *)
(* Violated by src/version.rs: "v1beta" returns Ok with level Beta(0).     *)
(***************************************************************************)
C3_MissingLevelNumber ==
    ( /\ pc = "version"
      /\ StartsWithV(input)
      /\ SuffixRun(input) \in {BETA, ALPHA}
      /\ Len(LevelRun(input)) = 0 )
    => ~res.ok

(***************************************************************************)
(* C6.  Length bound: every input longer than 63 bytes is rejected by      *)
(* Version::from_str with the length / shape error, before any structural  *)
(* parsing.                                                                *)
(* Violated by src/version.rs: the regex repeats its group, so 'v'         *)
(* followed by 63 digits '1' passes the shape check and fails later with   *)
(* IntegerOverflow.                                                        *)
(***************************************************************************)
C6_LengthBound ==
    (pc = "version" /\ Len(input) > MAX_LENGTH)
    => (~res.ok /\ res.err \in {"IllegalLength", "IllegalFormat"})

(***************************************************************************)
(* C5.  Missing major: when the input is 'v' followed by no digit,         *)
(* Version::from_str fails (with IllegalFormat in src/version.rs); it      *)
(* never returns a Version with major 0 from an absent digit run.          *)
(* Violated by src/lib.rs: "v" returns Ok with major 0.                    *)
(***************************************************************************)
C5_MissingMajor ==
    ( /\ pc \in {"version", "lib_version"}
      /\ StartsWithV(input)
      /\ Len(MajorRun(input)) = 0 )
    => (~res.ok /\ (pc = "version" => res.err = "IllegalFormat"))

PassesShape(s) == DNS_LABEL_REGEX_is_match(s)

(***************************************************************************)
(* C4.  Leading zero.                                                       *)
(* As claimed: for every input that passes the shape and 'v' prefix        *)
(* checks, if the major digit run or the level digit run begins with '0',  *)
(* Version::from_str fails with LeadingZero.                               *)
(* Taken with a major digit run present, this fails when the major run    *)
(* overflows: "v18446744073709551616beta0" fails with IntegerOverflow      *)
(* before the level digits are read.                                       *)
(***************************************************************************)
C4_LeadingZeroAsClaimed ==
    ( /\ pc = "version"
      /\ PassesShape(input)
      /\ StartsWithV(input)
      /\ \/ BeginsWithZero(MajorRun(input))
         \/ /\ Len(MajorRun(input)) > 0
            /\ SuffixRun(input) \in {BETA, ALPHA}
            /\ BeginsWithZero(LevelRun(input)) )
    => res = LeadingZero

(***************************************************************************)
(* C4 as amended: for every input that passes the shape and 'v' prefix     *)
(* checks, Version::from_str fails with LeadingZero if the major digit run *)
(* begins with '0', or if the major digit run is a number the parser takes *)
(* (present, at most 2^64 - 1), the suffix identifier is "beta" or "alpha" *)
(* and the level digit run begins with '0'.  consume_digits of src/util.rs *)
(* fails with LeadingZero when its input begins with '0'.                  *)
(***************************************************************************)
C4_LeadingZero ==
    /\ ( /\ pc = "version"
         /\ PassesShape(input)
         /\ StartsWithV(input)
         /\ \/ BeginsWithZero(MajorRun(input))
            \/ /\ RunValid(MajorRun(input))
               /\ SuffixRun(input) \in {BETA, ALPHA}
               /\ BeginsWithZero(LevelRun(input)) )
       => res = LeadingZero
    /\ (pc = "consume_digits" /\ BeginsWithZero(DigitPrefix(input)))
       => res = LeadingZero

\* "v1beta0"-like: a valid major, then a level run that begins with '0'.
C4_Witness ==
    /\ pc = "version"
    /\ PassesShape(input)
    /\ StartsWithV(input)
    /\ RunValid(MajorRun(input))
    /\ SuffixRun(input) \in {BETA, ALPHA}
    /\ BeginsWithZero(LevelRun(input))
    /\ res = LeadingZero

(***************************************************************************)
(* C7.  Overflow boundary: a digit run (major or level number) of value at *)
(* most 2^64 - 1 is accumulated to exactly that value, and a digit run of  *)
(* a greater value fails with IntegerOverflow; the accumulator never wraps *)
(* around.  Stated for consume_digits and for the major and the level run  *)
(* of Version::from_str, over runs that are present and begin with no '0'. *)
(***************************************************************************)
C7_OverflowBoundary ==
    /\ ( /\ pc = "consume_digits"
         /\ Len(DigitPrefix(input)) > 0
         /\ ~BeginsWithZero(DigitPrefix(input)) )
       => IF RunFits(DigitPrefix(input))
          THEN res.ok /\ res.number = RunValue(DigitPrefix(input))
          ELSE res = IntegerOverflow
    /\ ( /\ pc = "version"
         /\ PassesShape(input)
         /\ StartsWithV(input)
         /\ Len(MajorRun(input)) > 0
         /\ ~BeginsWithZero(MajorRun(input)) )
       => IF RunFits(MajorRun(input))
          THEN /\ res.ok => res.major = RunValue(MajorRun(input))
               /\ Len(AfterMajor(input)) = 0 => res.ok
               /\ ( /\ SuffixRun(input) \in {BETA, ALPHA}
                    /\ Len(LevelRun(input)) > 0
                    /\ ~BeginsWithZero(LevelRun(input)) )
                  => IF RunFits(LevelRun(input))
                     THEN res.ok /\ res.level.n = RunValue(LevelRun(input))
                     ELSE res = IntegerOverflow
          ELSE res = IntegerOverflow

\* The boundary itself: "v18446744073709551615" parsed to major 2^64 - 1.
C7_Witness ==
    /\ pc = "version"
    /\ res.ok
    /\ res.major = U64_MAX
    /\ Len(MajorRun(input)) = 20

(***************************************************************************)
(* C8.  Unknown suffix.                                                     *)
(* As claimed: when bytes remain after the major number and the maximal    *)
(* run of lower-case letters that follows is neither "beta" nor "alpha"    *)
(* (the empty run included), Version::from_str fails with IllegalLevel     *)
(* carrying exactly that run.                                              *)
(* This fails on inputs that do not pass the shape check: "v1gamma"        *)
(* followed by a non-ASCII byte fails with IllegalFormat, as the test      *)
(* invalid_version expects of "v1bet" + U+00E4 + "1".                      *)
(***************************************************************************)
C8_UnknownSuffixAsClaimed ==
    ( /\ pc = "version"
      /\ StartsWithV(input)
      /\ RunValid(MajorRun(input))
      /\ Len(AfterMajor(input)) > 0
      /\ SuffixRun(input) \notin {BETA, ALPHA} )
    => res = IllegalLevel(SuffixRun(input))

(***************************************************************************)
(* C8 as amended: for every input that passes the shape check, when bytes  *)
(* remain after the major number and the maximal run of lower-case letters *)
(* that follows is neither "beta" nor "alpha" (the empty run included),    *)
(* Version::from_str fails with IllegalLevel carrying exactly that run.    *)
(***************************************************************************)
C8_UnknownSuffix ==
    ( /\ pc = "version"
      /\ PassesShape(input)
      /\ StartsWithV(input)
      /\ RunValid(MajorRun(input))
      /\ Len(AfterMajor(input)) > 0
      /\ SuffixRun(input) \notin {BETA, ALPHA} )
    => res = IllegalLevel(SuffixRun(input))

\* "v1gamma12"-like: the error names "gamma" while digits follow it.
C8_Witness ==
    /\ pc = "version"
    /\ res = IllegalLevel(Str(<<"g","a","m","m","a">>))
    /\ Len(LevelRun(input)) > 0

(***************************************************************************)
(* C9.  Level comparison is a total order: partial_cmp always returns      *)
(* Some; Beta(n) is Greater than Alpha(m) for all n, m; within a variant   *)
(* the result is the comparison of the wrapped integers; the result is     *)
(* Equal exactly when the two values are equal; the comparison is          *)
(* antisymmetric and transitive.                                           *)
(***************************************************************************)
NumCompare(a, b) ==
    IF a = b THEN "Equal"
    ELSE IF \E i \in 1..3 : a[i] < b[i] /\ \A j \in 1..(i - 1) : a[j] = b[j]
    THEN "Less"
    ELSE "Greater"

Reverse(o) ==
    CASE o = "Less" -> "Greater"
      [] o = "Greater" -> "Less"
      [] o = "Equal" -> "Equal"

C9_TotalOrder ==
    pc = "compared" =>
        /\ res.some
        /\ res.v \in {"Less", "Equal", "Greater"}
        /\ (lhs.tag = "Beta" /\ rhs.tag = "Alpha") => res.v = "Greater"
        /\ (lhs.tag = "Alpha" /\ rhs.tag = "Beta") => res.v = "Less"
        /\ lhs.tag = rhs.tag => res.v = NumCompare(lhs.n, rhs.n)
        /\ (res.v = "Equal") <=> (lhs = rhs)
        /\ Level_partial_cmp(rhs, lhs) = Some(Reverse(res.v))
        /\ \A c \in Levels :
               (res.v = "Less" /\ Level_partial_cmp(rhs, c) = Some("Less"))
               => Level_partial_cmp(lhs, c) = Some("Less")

\* Beta(0) against Alpha(2^64 - 1): the variant decides, not the number.
C9_Witness ==
    /\ pc = "compared"
    /\ lhs = Beta(U64(0))
    /\ rhs = Alpha(U64_MAX)
    /\ res = Some("Greater")

(***************************************************************************)
(* C10.  Group splitting: ApiVersion::from_str splits at the first '/'     *)
(* only.  With a '/', the group is the text before it, verbatim, and the   *)
(* version is Version::from_str of the text after it; without one, the     *)
(* group is None and the whole input is parsed as the Version.  A Version  *)
(* failure is returned as ParseVersion wrapping the unchanged inner error. *)
(***************************************************************************)
SlashPositions(s) == {i \in 1..Len(s) : s[i] = B_slash}

FirstSlash(s) == CHOOSE i \in SlashPositions(s) : \A k \in SlashPositions(s) : i <= k

ExpectedApiVersion(group, text) ==
    LET version == Version_from_str(text).result IN
    IF version.ok
    THEN [ok |-> TRUE, group |-> group, version |-> version]
    ELSE [ok |-> FALSE, err |-> "ParseVersion", source |-> version]

Panicked == ~res.ok /\ res.err = "panic"

\* C11: for every input, consume_start, consume_digits, consume_chars and
\* Version::from_str end in Ok or in a typed Err value; no call ends in a
\* panic (unwrap of None, todo!(), slice out of range).
C11_NoPanic ==
    pc \in {"consume_start", "consume_digits", "consume_chars", "version"}
        => ~Panicked

(***************************************************************************)
(* C12: the arithmetic operators of Level                                  *)
(***************************************************************************)
\* The value of `l + n` and of `l - n` where the operation does not panic;
\* a call that returned did not overflow under overflow checks, so the
\* value is that of the build without them.
ValueAdd(l, n) == Level_add(l, n, FALSE).level
ValueSub(l, n) == Level_sub(l, n, FALSE).level

AddAssignStep == pc = "arith" /\ pc' = "add_assigned" /\ res'.ok
SubAssignStep == pc = "arith" /\ pc' = "sub_assigned" /\ res'.ok
ValueStep == pc = "arith" /\ pc' \in {"added", "subtracted"} /\ res'.ok

\* C12: for every Level l and amount n, after `l += n` the value of l equals
\* `l + n`, after `l -= n` it equals `l - n`, and none of the four operators
\* changes the variant (Beta/Alpha).
C12_InPlaceArithmetic ==
    [][ /\ AddAssignStep => lhs' = ValueAdd(lhs, amount)
        /\ SubAssignStep => lhs' = ValueSub(lhs, amount)
        /\ AddAssignStep \/ SubAssignStep => lhs'.tag = lhs.tag
        /\ ValueStep => res'.level.tag = lhs.tag ]_vars

====
